---- MODULE Spec2Model ----
(***************************************************************************)
(* A model of the training/inference orchestration engine of               *)
(* citisy/deeplearning: the fit loop of processor/model_process.py         *)
(* (ModelHooks), its checkpoint-and-metric routine, the retention pruning  *)
(* of utils/os_lib.py (FileCacher) and the early-stop policy of            *)
(* utils/torch_utils.py (EarlyStopping).                                   *)
(*                                                                         *)
(* Python floats are modelled as tagged values: a finite integer, NaN,     *)
(* +Inf or -Inf, with IEEE addition.  A file of the run directory is a     *)
(* record [name, ctime, ckpt]; ctime is a logical clock that advances at   *)
(* every write.  None is modelled as NONE for max_save_weight_num and as 0 *)
(* for the arguments the code only tests for truth (accumulate,            *)
(* check_period, patience, min_epoch).                                     *)
(***************************************************************************)
EXTENDS Integers, Sequences, FiniteSets, TLC

\* ---------------------------------------------------------------- bounds
MaxBatch == 2      \* batch_size ranges over 1..MaxBatch
MaxAccum == 3      \* accumulate ranges over None, 1..MaxAccum
MaxPeriod == 2     \* check_period ranges over None, 1..MaxPeriod
MaxSave == 2       \* max_save_weight_num ranges over None, 0..MaxSave
MaxEpoch == 2      \* max_epoch ranges over 1..MaxEpoch
MaxData == 3       \* samples of the training set, 1..MaxData
MaxLoss == 1       \* finite losses range over 1..MaxLoss
MaxScore == 2      \* metric scores range over 0..MaxScore
MaxThres == 1      \* the early-stop threshold ranges over 0..MaxThres
MaxPatience == 3   \* patience ranges over None, 1..MaxPatience
MaxMinEpoch == 2   \* min_epoch ranges over None, 1..MaxMinEpoch
MaxGap == 2        \* steps between two evaluations of the policy, 1..MaxGap
MaxEvalEpoch == 6  \* the policy is evaluated at steps 0..MaxEvalEpoch
MaxFloor == 2      \* ignore_min_score ranges over 0..MaxFloor
MaxVal == 3        \* samples of the validation set, 1..MaxVal
MaxVis == 2        \* max_vis_num ranges over None, 1..MaxVis
MaxArgs == 2       \* positional arguments of batch_predict, 1..MaxArgs
MaxObjs == 3       \* objects in each argument of batch_predict, 1..MaxObjs
MaxSeen == 2       \* counters of a process that has trained range over 0..MaxSeen
MaxParams == 1     \* the model's state_dict has the keys 1..MaxParams
MaxItem == 1       \* a parameter or the state of an auxiliary item ranges over 0..MaxItem
MaxInst == 2       \* process instances of one class, 1..MaxInst
MaxCalls == 3      \* calls are counted up to MaxCalls

\* ------------------------------------------------------ program constants
STEP == 1
EPOCH == 2
NONE == -1

\* ------------------------------------------------------------------ floats
Fin(v) == [k |-> "fin", v |-> v]
NaN == [k |-> "nan", v |-> 0]
PInf == [k |-> "pinf", v |-> 0]
NInf == [k |-> "ninf", v |-> 0]

\* float + float
FAdd(a, b) ==
    IF a.k = "nan" \/ b.k = "nan" THEN NaN
    ELSE IF a.k = "fin" THEN (IF b.k = "fin" THEN Fin(a.v + b.v) ELSE b)
    ELSE IF b.k = "fin" \/ b.k = a.k THEN a
    ELSE NaN

\* float / positive int, kept as the fraction num/den
FDiv(a, n) == [k |-> a.k, num |-> a.v, den |-> IF a.k = "fin" THEN n ELSE 1]

\* np.isnan(v) or np.isinf(v)
isnan_or_isinf(x) == x.k # "fin"

LossVals == {Fin(v) : v \in 1..MaxLoss} \cup {NaN, PInf, NInf}
Scores == 0..MaxScore

\* ------------------------------------------------------------------- state
VARIABLES
    pc,        \* position in fit(): "init", "epoch", "batch", "epoch_end", "train_end", "done"
    cfg,       \* the keyword arguments of fit() and the process attributes
    counters,  \* self.counters
    tc,        \* self.train_container: end_flag, losses
    files,     \* the *.pth files of work_dir
    clock,     \* filesystem time
    stopper,   \* self.stopper: best_fitness, best_epoch, acc_epoch, last_epoch
    i,         \* the epoch loop's index in on_train
    it,        \* samples the train dataloader has yielded in this epoch
    g,         \* history: what the run has done so far
    ev         \* history: what the last operation did

vars == <<pc, cfg, counters, tc, files, clock, stopper, i, it, g, ev>>

NoName == <<"none", 0>>
LastName == <<"last", 0>>
BestName == <<"best", 0>>
NumName(n) == <<"num", n>>

\* the counters a setdefault of on_train_start or on_val_start may find absent
StartKeys == {"epoch", "total_nums", "total_steps", "check_nums"}

\* self.counters = dict(): keys holds which of StartKeys and vis_num are present, an
\* absent counter reads 0 here
Counters0 ==
    [epoch |-> 0, total_nums |-> 0, total_steps |-> 0, per_epoch_nums |-> 0,
     check_nums |-> 0, check_loss |-> Fin(0), vis_num |-> 0, keys |-> {}]

NoLosses == [set |-> FALSE, loss |-> Fin(0), mean |-> FDiv(Fin(0), 1)]

Stopper0(min_epoch) ==
    [best_fitness |-> 0, best_epoch |-> 0, acc_epoch |-> 0, last_epoch |-> min_epoch]

G0 ==
    [opt_steps |-> 0, fwd |-> 0, bad |-> FALSE, first_bad |-> 0, detected |-> FALSE,
     routines |-> 0, saved |-> <<>>, nbest |-> 0,
     es_calls |-> 0, es_prev_epoch |-> -1, es_prev_score |-> 0, es_inc |-> TRUE,
     es_qual |-> TRUE, es_plat_ok |-> TRUE, es_improved_at |-> -1, ema_steps |-> 0,
     same |-> TRUE, passes |-> 0, restored |-> -1, since |-> 0]

Ev0 ==
    [kind |-> "none", fired |-> FALSE, routine |-> FALSE, bad_before |-> FALSE,
     detected |-> FALSE, wrote_last |-> FALSE, wrote_num |-> FALSE,
     seen |-> {}, removed |-> NoName, metric |-> FALSE, score |-> 0,
     wrote_best |-> FALSE, epoch |-> 0, ret |-> FALSE, improved |-> FALSE,
     elapsed |-> 0, acc_before |-> 0, log |-> <<>>, best_before |-> 0,
     evaluated |-> 0, ema |-> FALSE, selected |-> [given |-> FALSE, names |-> {}],
     inputs |-> {}, in_eval |-> FALSE, sched |-> 0]

\* self.models: the model and, with use_ema, the EMA model set_aux_model registers
Models == IF cfg.use_ema THEN {"model", "ema"} ELSE {"model"}

\* every module of self.models in the mode train
ModeOf(train) == [m \in Models |-> train]

\* a process without a scheduler: self.scheduler is not set
NoScheduler == [set |-> FALSE, last_epoch |-> -1]

\* set_scheduler(max_epoch): with use_scheduler a new LambdaLR whose last_epoch is
\* put back to -1
set_scheduler(scheduler) ==
    IF cfg.use_scheduler THEN [set |-> TRUE, last_epoch |-> -1] ELSE scheduler

\* a variant of scheduler_steps_at that advances the scheduler at both places
scheduler_steps_always(at) == cfg.use_scheduler

\* self.use_scheduler and self.scheduler_strategy == at, for at STEP or EPOCH
scheduler_steps_at(at) == cfg.use_scheduler /\ cfg.scheduler_strategy = at

\* self.scheduler.step() where the strategy asks for it: last_epoch advances by one
scheduler_step(s, at) ==
    IF scheduler_steps_at(at)
    THEN [s EXCEPT !.tc.scheduler.last_epoch = @ + 1, !.ev.sched = @ + 1]
    ELSE s

\* The object's mutable state as one value, so that the calls of one handler compose.
Self ==
    [counters |-> counters, tc |-> tc, files |-> files, clock |-> clock,
     stopper |-> stopper, g |-> g, ev |-> [Ev0 EXCEPT !.kind = "op"],
     ckpt |-> [counters |-> counters, stopper |-> stopper]]

Commit(s) ==
    /\ counters' = s.counters
    /\ tc' = s.tc
    /\ files' = s.files
    /\ clock' = s.clock
    /\ stopper' = s.stopper
    /\ g' = s.g
    /\ ev' = s.ev

\* ------------------------------------------------------- early-stop policy
Abs(x) == IF x < 0 THEN 0 - x ELSE x

\* a variant of es_stop that needs the idle period to exceed patience
es_stop_strict(acc_epoch, patience) == patience # 0 /\ acc_epoch > patience

\* self.patience = patience or float('inf'); stop = self.acc_epoch >= self.patience
es_stop(acc_epoch, patience) == patience # 0 /\ acc_epoch >= patience

\* a variant of es_update that does not reset the idle period on an improvement
es_update_no_reset(st, thres, epoch, fitness) ==
    IF fitness - st.best_fitness > thres
    THEN [st EXCEPT !.best_epoch = epoch, !.best_fitness = fitness,
                    !.acc_epoch = @ + (epoch - st.last_epoch), !.last_epoch = epoch]
    ELSE IF Abs(st.best_fitness - fitness) <= thres
    THEN [st EXCEPT !.acc_epoch = @ + (epoch - st.last_epoch), !.last_epoch = epoch]
    ELSE [st EXCEPT !.last_epoch = epoch]

\* EarlyStopping.__call__ past the min_epoch test: the three-way update of the state
es_update(st, thres, epoch, fitness) ==
    IF fitness - st.best_fitness > thres
    THEN [st EXCEPT !.best_epoch = epoch, !.best_fitness = fitness,
                    !.acc_epoch = 0, !.last_epoch = epoch]
    ELSE IF Abs(st.best_fitness - fitness) <= thres
    THEN [st EXCEPT !.acc_epoch = @ + (epoch - st.last_epoch), !.last_epoch = epoch]
    ELSE [st EXCEPT !.last_epoch = epoch]

\* EarlyStopping.__call__(epoch, fitness): the state it leaves and what it returns
es_call(st, c, epoch, fitness) ==
    IF epoch < c.min_epoch
    THEN [st |-> st, ret |-> FALSE]
    ELSE LET st1 == es_update(st, c.thres, epoch, fitness)
         IN [st |-> st1, ret |-> es_stop(st1.acc_epoch, c.patience)]

\* ------------------------------------------------------------ the run directory
Names(fs) == {f.name : f \in fs}

\* CheckpointHooks.save(path, WEIGHT, save_items=ckpt): torch.save overwrites the file
save(s, name, ckpt) ==
    [s EXCEPT !.files = {f \in @ : f.name # name}
                        \cup {[name |-> name, ctime |-> s.clock + 1, ckpt |-> ckpt,
                               det |-> s.ev.detected, score |-> s.ev.score]},
              !.clock = @ + 1,
              !.ev.log = Append(@, name[1])]

\* self.cache_dir.glob('*pth'): every file of the directory whose name ends in pth
glob_pth(fs) == {f \in fs : f.name[1] \in {"num", "last", "best"}}

\* caches[ctime.index(min(ctime))]
oldest(caches) == CHOOSE f \in caches : \A h \in caches : f.ctime <= h.ctime

\* a variant of delete_over_range that prunes as soon as max_size files exist
delete_over_range_at_max(s, max_size) ==
    IF max_size = 0 \/ max_size = NONE
    THEN s
    ELSE LET caches == glob_pth(s.files)
         IN IF Cardinality(caches) >= max_size
            THEN [s EXCEPT !.files = @ \ {oldest(caches)},
                           !.ev.seen = Names(caches),
                           !.ev.removed = oldest(caches).name]
            ELSE [s EXCEPT !.ev.seen = Names(caches)]

\* FileCacher(work_dir, max_size).delete_over_range(suffix='pth')
delete_over_range(s, max_size) ==
    IF max_size = 0 \/ max_size = NONE
    THEN s
    ELSE LET caches == glob_pth(s.files)
         IN IF Cardinality(caches) > max_size
            THEN [s EXCEPT !.files = @ \ {oldest(caches)},
                           !.ev.seen = Names(caches),
                           !.ev.removed = oldest(caches).name]
            ELSE [s EXCEPT !.ev.seen = Names(caches)]

\* ------------------------------------------------- the steps of the fit loop
\* a variant of accumulate_fires whose comparison with the batch size is not strict
accumulate_fires_inclusive(total_nums, accumulate, batch_size) ==
    IF accumulate # 0 THEN total_nums % accumulate <= batch_size ELSE TRUE

\* on_backward: whether the optimizer step is applied on this batch
accumulate_fires(total_nums, accumulate, batch_size) ==
    IF accumulate # 0 THEN total_nums % accumulate < batch_size ELSE TRUE

\* on_backward then _backward: optimizer.step() and zero_grad()
on_backward(s) ==
    LET s1 == IF accumulate_fires(s.counters.total_nums, cfg.accumulate, cfg.batch_size)
              THEN [s EXCEPT !.g.opt_steps = @ + 1, !.ev.fired = TRUE]
              ELSE s
    IN IF cfg.use_ema
       THEN [s1 EXCEPT !.g.ema_steps = @ + 1, !.ev.ema = TRUE]
       ELSE s1

\* a variant of step_counters that advances total_steps by the samples of the batch
step_counters_by_samples(c, n, loss) ==
    [c EXCEPT !.total_nums = @ + n, !.total_steps = @ + n, !.per_epoch_nums = @ + n,
              !.check_nums = @ + n, !.check_loss = FAdd(@, loss)]

\* on_train_step_end: the four counters and the running loss sum
step_counters(c, n, loss) ==
    [c EXCEPT !.total_nums = @ + n, !.total_steps = @ + 1, !.per_epoch_nums = @ + n,
              !.check_nums = @ + n, !.check_loss = FAdd(@, loss)]

\* on_train_step_end: losses = {loss: v, mean_loss: counters[check_loss] / counters[check_nums]}
step_losses(c, loss) ==
    [set |-> TRUE, loss |-> loss, mean |-> FDiv(c.check_loss, c.check_nums)]

\* a variant of losses_bad that looks at the step's own loss and not at the mean
losses_bad_last_only(l) == l.set /\ isnan_or_isinf(l.loss)

\* _check_train: some value of losses is NaN or infinite
losses_bad(l) == l.set /\ (isnan_or_isinf(l.loss) \/ isnan_or_isinf(l.mean))

\* a variant of check_train_save that always writes last.pth, and the numbered
\* snapshot in addition when retention > 0
check_train_save_last_always(s, max_save_weight_num, check_num) ==
    LET s1 == [save(s, LastName, s.ckpt) EXCEPT !.ev.wrote_last = TRUE]
    IN IF max_save_weight_num # NONE /\ max_save_weight_num > 0
       THEN delete_over_range(
               [save(s1, NumName(check_num), s1.ckpt) EXCEPT
                   !.ev.wrote_num = TRUE, !.g.saved = Append(@, check_num)],
               max_save_weight_num)
       ELSE s1

\* _check_train: the checkpoint the routine writes for the retention setting
check_train_save(s, max_save_weight_num, check_num) ==
    IF max_save_weight_num = NONE
    THEN [save(s, LastName, s.ckpt) EXCEPT !.ev.wrote_last = TRUE]
    ELSE IF max_save_weight_num > 0
    THEN delete_over_range(
            [save(s, NumName(check_num), s.ckpt) EXCEPT
                !.ev.wrote_num = TRUE, !.g.saved = Append(@, check_num)],
            max_save_weight_num)
    ELSE s

\* a variant of check_train_reset that leaves the running loss sum
check_train_reset_nums_only(c) == [c EXCEPT !.check_nums = 0]

\* _check_train: self.counters[k] = 0 for every k that starts with check_
check_train_reset(c) == [c EXCEPT !.check_nums = 0, !.check_loss = Fin(0)]

\* _check_train(max_save_weight_num, check_num)
check_train(s, check_num) ==
    LET bad == losses_bad(s.tc.losses)
        c1 == IF s.tc.losses.set
              THEN check_train_reset(s.counters)
              ELSE s.counters
        s1 == [s EXCEPT !.counters = c1,
                        !.tc.end_flag = @ \/ bad,
                        !.ckpt = [counters |-> c1, stopper |-> s.stopper],
                        !.ev.routine = TRUE,
                        !.ev.bad_before = s.g.bad,
                        !.ev.detected = bad,
                        !.g.bad = FALSE,
                        !.g.detected = @ \/ bad,
                        !.g.routines = @ + 1,
                        !.g.since = 0]
    IN check_train_save(s1, cfg.max_save_weight_num, check_num)

\* a variant of check_metric_best that also takes a score equal to best_score
check_metric_best_or_equal(st, max_save_weight_num, score) ==
    /\ score >= st.best_fitness
    /\ (max_save_weight_num = NONE \/ max_save_weight_num > 0)

\* _check_metric: whether best.pth is written for the score metric() returned
check_metric_best(st, max_save_weight_num, score) ==
    /\ score > st.best_fitness
    /\ (max_save_weight_num = NONE \/ max_save_weight_num > 0)

\* set_mode(train): v.train(train) for every module of self.models
set_mode(s, train) == [s EXCEPT !.tc.train = ModeOf(train)]

\* on_val_start: a fresh val_container, vis_num = 0, counters.setdefault('epoch', -1)
on_val_start(c) ==
    [c EXCEPT !.vis_num = 0,
              !.epoch = IF "epoch" \in c.keys THEN @ ELSE -1,
              !.keys = @ \cup {"vis_num", "epoch"}]

\* metric(): predict() over the validation data, whose on_val_start switches the
\* models to evaluation mode and resets vis_num in self.counters; in_eval is whether
\* the pass ran in evaluation mode
metric(s) ==
    LET s1 == set_mode([s EXCEPT !.counters = on_val_start(@)], FALSE)
    IN [s1 EXCEPT !.ev.in_eval = \A m \in Models : ~s1.tc.train[m]]

\* a variant of check_metric_mode that leaves the models as metric() left them
check_metric_mode_kept(s) == s

\* _check_metric: self.set_mode(train=True) after metric() returned
check_metric_mode(s) == set_mode(s, TRUE)

\* The ckpt _check_train returned, as _check_metric saves it: ckpt['counters'] is
\* the dict self.counters itself, read when best.pth is written; the stopper entry
\* is the state_dict() taken in _check_train.
check_metric_ckpt(s) == [s.ckpt EXCEPT !.counters = s.counters]

\* _check_metric(ckpt, check_num, max_save_weight_num); score is what metric() returned
check_metric(s, check_num, score) ==
    LET s0 == check_metric_mode(metric(s))
        s1 == [s0 EXCEPT !.ev.metric = TRUE, !.ev.score = score,
                        !.ev.best_before = s.stopper.best_fitness,
                        !.ev.log = Append(@, "metric")]
    IN IF ~cfg.use_early_stop
       THEN s1
       ELSE LET s2 == IF check_metric_best(s1.stopper, cfg.max_save_weight_num, score)
                      THEN [save(s1, BestName, check_metric_ckpt(s1)) EXCEPT
                               !.ev.wrote_best = TRUE, !.g.nbest = @ + 1]
                      ELSE s1
                r == es_call(s2.stopper, cfg, check_num, score)
            IN IF s2.tc.end_flag
               THEN s2
               ELSE [s2 EXCEPT !.stopper = r.st, !.tc.end_flag = r.ret,
                               !.ev.evaluated = @ + 1,
                               !.ev.log = Append(@, "evaluate")]

\* a variant of step_check_due that runs the routine only at an exact multiple
step_check_due_at_multiple(total_nums, check_period, batch_size) ==
    check_period # 0 /\ total_nums % check_period = 0

\* _check_on_train_step_end: check_period and total_nums % check_period < batch_size
step_check_due(total_nums, check_period, batch_size) ==
    check_period # 0 /\ total_nums % check_period < batch_size

\* _check_on_train_step_end
check_on_train_step_end(s, score) ==
    IF step_check_due(s.counters.total_nums, cfg.check_period, cfg.batch_size)
    THEN check_metric(check_train(s, s.counters.total_nums), s.counters.total_nums, score)
    ELSE s

\* a variant of epoch_metric_due that evaluates at the first epoch of every period
epoch_metric_due_first(check_period, epoch) ==
    check_period # 0 /\ epoch % check_period = 0

\* _check_on_train_epoch_end: check_period and epoch % check_period == check_period - 1
epoch_metric_due(check_period, epoch) ==
    check_period # 0 /\ epoch % check_period = check_period - 1

\* _check_on_train_epoch_end
check_on_train_epoch_end(s, score) ==
    LET epoch == s.counters.epoch - 1
        s1 == check_train(s, epoch)
    IN IF epoch_metric_due(cfg.check_period, epoch)
       THEN check_metric(s1, epoch, score)
       ELSE s1

\* on_train_step_end(rets, outputs)
on_train_step_end(s, n, loss, score) ==
    LET c1 == step_counters(s.counters, n, loss)
        s1 == [s EXCEPT !.counters = c1,
                        !.tc.losses = step_losses(c1, loss),
                        !.g.fwd = @ + 1,
                        !.g.since = @ + n,
                        !.g.same = IF s.counters.check_nums = 0 THEN TRUE
                                   ELSE @ /\ loss = s.tc.losses.loss,
                        !.g.bad = @ \/ isnan_or_isinf(loss),
                        !.g.first_bad = IF @ = 0 /\ isnan_or_isinf(loss)
                                        THEN s.g.fwd + 1 ELSE @]
        s2 == scheduler_step(s1, STEP)
    IN IF cfg.check_strategy = STEP THEN check_on_train_step_end(s2, score) ELSE s2

\* on_train_epoch_end
on_train_epoch_end(s, score) ==
    LET s1 == scheduler_step([s EXCEPT !.counters.epoch = @ + 1], EPOCH)
    IN IF cfg.check_strategy = EPOCH THEN check_on_train_epoch_end(s1, score) ELSE s1

\* ------------------------------------------------------------------ actions

\* a variant of es_update_floor that does not consult the floor
es_update_floor_ignored(st, thres, floor, epoch, fitness) ==
    es_update(st, thres, epoch, fitness)

\* The policy set_stopper configures, EarlyStopping(..., ignore_min_score=floor): a
\* score below the floor never counts as an improvement; it is handled as a score
\* that has not improved.
es_update_floor(st, thres, floor, epoch, fitness) ==
    IF fitness < floor
    THEN IF Abs(st.best_fitness - fitness) <= thres
         THEN [st EXCEPT !.acc_epoch = @ + (epoch - st.last_epoch), !.last_epoch = epoch]
         ELSE [st EXCEPT !.last_epoch = epoch]
    ELSE es_update(st, thres, epoch, fitness)

\* the evaluation call of the policy with a floor
es_call_floor(st, c, epoch, fitness) ==
    IF epoch < c.min_epoch
    THEN [st |-> st, ret |-> FALSE]
    ELSE LET st1 == es_update_floor(st, c.thres, c.ignore_min_score, epoch, fitness)
         IN [st |-> st1, ret |-> es_stop(st1.acc_epoch, c.patience)]

Min(a, b) == IF a < b THEN a ELSE b

\* the forward hook returns finite losses only, or any float
FiniteLosses == {Fin(v) : v \in 1..MaxLoss}

\* The configurations of a run: the keyword arguments of fit(), the attributes of the
\* process, the size of the training set, and what the hooks of the model may return
\* (losses: on_train_step's loss, scores: metric()'s score).
Configs ==
    [accumulate : 0..MaxAccum, batch_size : 1..MaxBatch, check_period : 0..MaxPeriod,
     max_save_weight_num : {NONE} \cup 0..MaxSave, check_strategy : {STEP, EPOCH},
     max_epoch : 1..MaxEpoch, data_n : 1..MaxData, use_early_stop : BOOLEAN,
     thres : {0}, patience : {2}, min_epoch : {0}, ignore_min_score : {0},
     use_ema : {FALSE}, use_scheduler : {FALSE}, scheduler_strategy : {EPOCH},
     losses : {FiniteLosses, LossVals}, scores : {{0}, Scores}]

\* runs that differ in the accumulation window, the batch size and the data
ConfigsAccum ==
    {c \in Configs :
        /\ c.check_period = 0 /\ c.check_strategy = EPOCH
        /\ c.max_save_weight_num = NONE /\ ~c.use_early_stop
        /\ c.losses = FiniteLosses /\ c.scores = {0}}

\* the runs of ConfigsAccum with an EMA shadow model (use_ema, set_aux_model)
ConfigsEma == {[c EXCEPT !.use_ema = TRUE] : c \in ConfigsAccum}

\* runs that differ in the checkpoint cadence and in the losses the model returns
ConfigsLoss ==
    {c \in Configs :
        /\ c.accumulate = 0 /\ c.max_save_weight_num = NONE /\ ~c.use_early_stop
        /\ c.losses = LossVals /\ c.scores = {0}}

\* the runs of ConfigsLoss that have a checkpoint routine, with batches of one sample
ConfigsTerm == {c \in ConfigsLoss : c.check_period # 0 /\ c.batch_size = 1}

\* runs that differ in the retention setting, the cadence and the scores
ConfigsCkpt ==
    {c \in Configs :
        /\ c.accumulate = 0 /\ c.batch_size = 1 /\ c.check_period # 0
        /\ c.losses = FiniteLosses /\ c.scores = Scores}

\* runs with a metric evaluation at every routine that differ in the retention
\* setting, the policy and its threshold and min_epoch, the losses and the scores
ConfigsMetric ==
    {[c EXCEPT !.thres = t, !.min_epoch = m] :
        c \in {k \in Configs :
                 /\ k.accumulate = 0 /\ k.batch_size = 1 /\ k.check_period = 1
                 /\ k.data_n <= 2 /\ k.losses = LossVals /\ k.scores = Scores},
        t \in 0..MaxThres, m \in 0..1}

\* Process.init_components: counters = dict(), set_stopper(); an empty work_dir
InitWith(C) ==
    /\ pc = "init"
    /\ cfg \in C
    /\ counters = Counters0
    /\ tc = [end_flag |-> FALSE, losses |-> NoLosses, train |-> ModeOf(TRUE),
             scheduler |-> NoScheduler]
    /\ files = {}
    /\ clock = 0
    /\ stopper = Stopper0(cfg.min_epoch)
    /\ i = 0
    /\ it = 0
    /\ g = G0
    /\ ev = Ev0

Init == InitWith(Configs)
InitAccum == InitWith(ConfigsAccum)
InitLoss == InitWith(ConfigsLoss)
InitCkpt == InitWith(ConfigsCkpt)
InitTerm == InitWith(ConfigsTerm)
InitEma == InitWith(ConfigsEma)
InitMetric == InitWith(ConfigsMetric)

\* a variant of on_train_first that starts every fit at epoch 0
on_train_first_zero(c) == 0

\* on_train: range(self.counters['epoch'], max_epoch) starts at the epoch counter
on_train_first(c) == c.epoch

\* on_train_start, and the head of on_train's epoch loop
OnTrainStart ==
    /\ pc = "init"
    /\ tc' = [end_flag |-> FALSE, losses |-> NoLosses, train |-> ModeOf(TRUE),
             scheduler |-> set_scheduler(tc.scheduler)]
    /\ i' = on_train_first(counters)
    /\ pc' = IF on_train_first(counters) < cfg.max_epoch THEN "epoch" ELSE "end"
    /\ ev' = [Ev0 EXCEPT !.kind = "train_start"]
    /\ counters' = [counters EXCEPT !.keys = @ \cup StartKeys]
    /\ UNCHANGED <<cfg, files, clock, stopper, it, g>>

\* on_train: the head of the epoch loop, on_train_epoch_start
OnTrainEpochStart ==
    /\ pc = "epoch"
    /\ counters' = [counters EXCEPT !.per_epoch_nums = 0]
    /\ it' = 0
    /\ pc' = "batch"
    /\ ev' = [Ev0 EXCEPT !.kind = "epoch_start"]
    /\ g' = [g EXCEPT !.passes = @ + 1]
    /\ UNCHANGED <<cfg, tc, files, clock, stopper, i>>

\* a variant of step_break that leaves the batch loop only when the data is exhausted
step_break_exhausted_only(end_flag, exhausted) == exhausted

\* on_train: the batch loop ends when on_train_step_end returned True (break) or the
\* dataloader is exhausted
step_break(end_flag, exhausted) == end_flag \/ exhausted

\* on_train: one batch: on_train_step_start, on_train_step, on_backward, on_train_step_end
TrainStep ==
    /\ pc = "batch"
    /\ \E loss \in cfg.losses, score \in cfg.scores :
        LET n == Min(cfg.batch_size, cfg.data_n - it)
            s0 == [Self EXCEPT !.ev.kind = "step"]
            s1 == on_backward(s0)
            s2 == on_train_step_end(s1, n, loss, score)
        IN /\ Commit(s2)
           /\ it' = it + n
           /\ pc' = IF step_break(s2.tc.end_flag, it + n >= cfg.data_n)
                    THEN "epoch_end" ELSE "batch"
    /\ UNCHANGED <<cfg, i>>

\* on_train: on_train_epoch_end and the end of the epoch loop's body
OnTrainEpochEnd ==
    /\ pc = "epoch_end"
    /\ \E score \in cfg.scores :
        LET s1 == on_train_epoch_end([Self EXCEPT !.ev.kind = "epoch_end"], score)
        IN /\ Commit(s1)
           /\ pc' = IF s1.tc.end_flag \/ i + 1 >= cfg.max_epoch THEN "end" ELSE "epoch"
    /\ i' = i + 1
    /\ UNCHANGED <<cfg, it>>

\* on_train_end
OnTrainEnd ==
    /\ pc = "end"
    /\ pc' = "done"
    /\ ev' = [Ev0 EXCEPT !.kind = "train_end"]
    /\ UNCHANGED <<cfg, counters, tc, files, clock, stopper, i, it, g>>

Next ==
    \/ OnTrainStart
    \/ OnTrainEpochStart
    \/ TrainStep
    \/ OnTrainEpochEnd
    \/ OnTrainEnd

Spec == Init /\ [][Next]_vars
SpecAccum == InitAccum /\ [][Next]_vars
SpecLoss == InitLoss /\ [][Next]_vars
SpecCkpt == InitCkpt /\ [][Next]_vars
SpecEma == InitEma /\ [][Next]_vars
SpecMetric == InitMetric /\ [][Next]_vars
\* fit() runs on: a handler that can run does run
SpecTermFair == InitTerm /\ [][Next]_vars /\ WF_vars(Next)

\* ---------------------------------------------------------- training mode
\* the runs of ConfigsCkpt, without and with an EMA model
ConfigsMode == {[c EXCEPT !.use_ema = e] : c \in ConfigsCkpt, e \in BOOLEAN}

\* a process whose models are in any mode when fit is called: predict may have run
InitMode ==
    /\ pc = "init"
    /\ cfg \in ConfigsMode
    /\ counters = Counters0
    /\ tc \in [end_flag : {FALSE}, losses : {NoLosses}, train : [Models -> BOOLEAN],
              scheduler : {NoScheduler}]
    /\ files = {}
    /\ clock = 0
    /\ stopper = Stopper0(cfg.min_epoch)
    /\ i = 0
    /\ it = 0
    /\ g = G0
    /\ ev = Ev0

SpecMode == InitMode /\ [][Next]_vars

\* ------------------------------------------------------- checkpoint and resume
\* runs with a checkpoint routine in which no termination fires: finite losses and
\* no early stop
ConfigsResume ==
    {c \in Configs :
        /\ c.accumulate = 0 /\ c.batch_size = 1 /\ c.check_period # 0
        /\ ~c.use_early_stop /\ c.losses = FiniteLosses /\ c.scores = {0}}

InitResume == InitWith(ConfigsResume)

\* the process stops at any point of fit or after it, and a new process of the same
\* work_dir is set up (init_components), loads one of the checkpoints with its
\* counters and stopper (load_weight) and is about to call fit with a horizon
Resume ==
    /\ pc \in {"epoch", "batch", "epoch_end", "end", "done"}
    /\ g.restored = -1
    /\ \E f \in files, max_epoch \in 1..MaxEpoch :
          /\ counters' = f.ckpt.counters
          /\ stopper' = f.ckpt.stopper
          /\ cfg' = [cfg EXCEPT !.max_epoch = max_epoch]
          /\ g' = [g EXCEPT !.restored = f.ckpt.counters.epoch, !.passes = 0,
                            !.since = 0]
    /\ tc' = [end_flag |-> FALSE, losses |-> NoLosses, train |-> ModeOf(TRUE),
             scheduler |-> NoScheduler]
    /\ i' = 0
    /\ it' = 0
    /\ pc' = "init"
    /\ ev' = [Ev0 EXCEPT !.kind = "resume"]
    /\ UNCHANGED <<files, clock>>

NextResume ==
    \/ Next
    \/ Resume

SpecResume == InitResume /\ [][NextResume]_vars

\* the runs of ConfigsResume with a scheduler, in either stepping strategy
ConfigsSched ==
    {[c EXCEPT !.use_scheduler = TRUE, !.scheduler_strategy = m] :
        c \in ConfigsResume, m \in {STEP, EPOCH}}

InitSched == InitWith(ConfigsSched)

SpecSched == InitSched /\ [][NextResume]_vars

\* ------------------------------------------------ the early-stop policy alone
\* EarlyStopping(thres, patience, min_epoch) for every small setting
ConfigsStop ==
    {[c EXCEPT !.thres = t, !.patience = p, !.min_epoch = m] :
        c \in {k \in ConfigsAccum : k.accumulate = 0 /\ k.batch_size = 1
                                    /\ k.max_epoch = 1 /\ k.data_n = 1},
        t \in 0..MaxThres, p \in 0..MaxPatience, m \in 0..MaxMinEpoch}

\* EarlyStopping.__init__
InitStop ==
    /\ pc = "policy"
    /\ cfg \in ConfigsStop
    /\ counters = Counters0
    /\ tc = [end_flag |-> FALSE, losses |-> NoLosses, train |-> ModeOf(TRUE),
             scheduler |-> NoScheduler]
    /\ files = {}
    /\ clock = 0
    /\ stopper = Stopper0(cfg.min_epoch)
    /\ i = 0
    /\ it = 0
    /\ g = G0
    /\ ev = Ev0

\* the step at which the present plateau began: the last improving evaluation, or
\* min_epoch when no evaluation has improved yet
PlateauStart == IF g.es_improved_at = -1 THEN cfg.min_epoch ELSE g.es_improved_at

\* stopper(epoch, fitness) at the next step, until it returns stop
Evaluate ==
    /\ pc = "policy"
    /\ ~ev.ret
    /\ \E epoch \in (g.es_prev_epoch + 1)..Min(g.es_prev_epoch + MaxGap, MaxEvalEpoch),
          fitness \in Scores :
        LET r == es_call(stopper, cfg, epoch, fitness)
            counted == epoch >= cfg.min_epoch
            improved == counted /\ fitness - stopper.best_fitness > cfg.thres
            within == Abs(stopper.best_fitness - fitness) <= cfg.thres
        IN /\ stopper' = r.st
           /\ ev' = [Ev0 EXCEPT !.kind = "evaluate", !.epoch = epoch, !.score = fitness,
                                !.ret = r.ret, !.improved = improved,
                                !.elapsed = epoch - stopper.last_epoch,
                                !.acc_before = stopper.acc_epoch]
           /\ g' = [g EXCEPT
                      !.es_calls = @ + 1,
                      !.es_prev_epoch = epoch,
                      !.es_prev_score = fitness,
                      !.es_inc = @ /\ (g.es_calls = 0 \/ fitness > g.es_prev_score),
                      !.es_qual = @ /\ (counted => improved),
                      !.es_plat_ok = IF improved THEN TRUE
                                     ELSE @ /\ (counted => within),
                      !.es_improved_at = IF improved THEN epoch ELSE @]
    /\ UNCHANGED <<pc, cfg, counters, tc, files, clock, i, it>>

NextStop == Evaluate

SpecStop == InitStop /\ [][NextStop]_vars

\* ------------------------------------- the early-stop policy with a score floor
\* EarlyStopping(patience, min_period, ignore_min_score) for every small setting
ConfigsFloor ==
    {[c EXCEPT !.ignore_min_score = f] :
        c \in {k \in ConfigsStop : k.min_epoch <= 1 /\ k.patience # 1},
        f \in 0..MaxFloor}

InitFloor ==
    /\ pc = "floor_policy"
    /\ cfg \in ConfigsFloor
    /\ counters = Counters0
    /\ tc = [end_flag |-> FALSE, losses |-> NoLosses, train |-> ModeOf(TRUE),
             scheduler |-> NoScheduler]
    /\ files = {}
    /\ clock = 0
    /\ stopper = Stopper0(cfg.min_epoch)
    /\ i = 0
    /\ it = 0
    /\ g = G0
    /\ ev = Ev0

\* stopper(step, score) of the policy with a floor, until it returns stop
EvaluateFloor ==
    /\ pc = "floor_policy"
    /\ ~ev.ret
    /\ \E epoch \in (g.es_prev_epoch + 1)..Min(g.es_prev_epoch + MaxGap, MaxEvalEpoch),
          fitness \in Scores :
        LET r == es_call_floor(stopper, cfg, epoch, fitness)
        IN /\ stopper' = r.st
           /\ ev' = [Ev0 EXCEPT !.kind = "evaluate", !.epoch = epoch, !.score = fitness,
                                !.ret = r.ret,
                                !.improved = r.st.best_fitness # stopper.best_fitness,
                                !.elapsed = epoch - stopper.last_epoch,
                                !.acc_before = stopper.acc_epoch]
           /\ g' = [g EXCEPT !.es_calls = @ + 1, !.es_prev_epoch = epoch,
                             !.es_prev_score = fitness]
    /\ UNCHANGED <<pc, cfg, counters, tc, files, clock, i, it>>

NextFloor == EvaluateFloor

SpecFloor == InitFloor /\ [][NextFloor]_vars

\* ------------------------------------------- the validation/prediction pipeline
\* on_val_step_end: how many results of the batch are visualized
\* (max_vis_num = max_vis_num or float('inf'): None and 0 both give no bound)
vis_n(batch_size, max_vis_num, vis_num) ==
    IF max_vis_num = NONE \/ max_vis_num = 0
    THEN batch_size
    ELSE Min(batch_size, max_vis_num - vis_num)

\* on_val_step_end(rets, model_results, is_visualize, batch_size, max_vis_num)
on_val_step_end(c, is_visualize, batch_size, max_vis_num) ==
    IF is_visualize /\ vis_n(batch_size, max_vis_num, c.vis_num) > 0
    THEN [c EXCEPT !.vis_num = @ + vis_n(batch_size, max_vis_num, c.vis_num)]
    ELSE c

\* on_predict_start: a fresh predict_container, vis_num = 0, total_nums = -1
on_predict_start(c) ==
    [c EXCEPT !.vis_num = 0, !.total_nums = -1,
              !.keys = @ \cup {"vis_num", "total_nums"}]

\* the arguments of predict() and batch_predict()
PredictArgs ==
    [batch_size : 1..MaxBatch, val_n : 1..MaxVal, is_visualize : BOOLEAN,
     max_vis_num : {NONE} \cup 0..MaxVis, nargs : 1..MaxArgs, nobjs : 1..MaxObjs]

\* the counters of a process: fresh, or left by a fit()
PredictCounters ==
    {Counters0} \cup
    {[Counters0 EXCEPT !.epoch = e, !.total_nums = n, !.total_steps = n,
                       !.keys = StartKeys] : e \in 0..MaxSeen, n \in 0..MaxSeen}

InitPredict ==
    /\ pc = "ready"
    /\ cfg \in PredictArgs
    /\ counters \in PredictCounters
    /\ tc = [model_results |-> <<>>]
    /\ files = {}
    /\ clock = 0
    /\ stopper = Stopper0(0)
    /\ i = 0
    /\ it = 0
    /\ g = G0
    /\ ev = Ev0

\* predict(): on_val_start
ValStart ==
    /\ pc = "ready"
    /\ counters' = on_val_start(counters)
    /\ tc' = [model_results |-> <<>>]
    /\ it' = 0
    /\ pc' = "val"
    /\ ev' = [Ev0 EXCEPT !.kind = "val_start"]
    /\ UNCHANGED <<cfg, files, clock, stopper, i, g>>

\* predict(): one batch of the val dataloader: on_val_step_start, on_val_step,
\* on_val_reprocess, on_val_step_end
ValStep ==
    /\ pc = "val"
    /\ it < cfg.val_n
    /\ LET n == Min(cfg.batch_size, cfg.val_n - it)
       IN /\ counters' = on_val_step_end(counters, cfg.is_visualize, cfg.batch_size,
                                         cfg.max_vis_num)
          /\ tc' = [tc EXCEPT !.model_results = @ \o [k \in 1..n |-> it + k]]
          /\ it' = it + n
          /\ ev' = [Ev0 EXCEPT !.kind = "val_step", !.epoch = n]
    /\ UNCHANGED <<pc, cfg, files, clock, stopper, i, g>>

\* predict(): on_val_end, return self.val_container
ValEnd ==
    /\ pc = "val"
    /\ it >= cfg.val_n
    /\ pc' = "ready"
    /\ ev' = [Ev0 EXCEPT !.kind = "val_end"]
    /\ UNCHANGED <<cfg, counters, tc, files, clock, stopper, i, it, g>>

\* batch_predict(*objs, batch_size): on_predict_start; single_predict is batch_predict
\* of one object per argument
PredictStart ==
    /\ pc = "ready"
    /\ counters' = on_predict_start(counters)
    /\ tc' = [model_results |-> <<>>]
    /\ it' = 0
    /\ pc' = "predict"
    /\ ev' = [Ev0 EXCEPT !.kind = "predict_start"]
    /\ UNCHANGED <<cfg, files, clock, stopper, i, g>>

\* objs[i * batch_size:(i + 1) * batch_size] of the tuple objs of nargs arguments:
\* the positions of the arguments the slice holds
batch_objs(nargs, lo, batch_size) ==
    {a \in 1..nargs : lo * batch_size < a /\ a <= (lo + 1) * batch_size}

\* batch_predict: one turn of the loop for i in range(0, len(objs[0]), batch_size);
\* the hooks turn the arguments they are given, whole, into results
PredictStep ==
    /\ pc = "predict"
    /\ it < cfg.nobjs
    /\ LET args == batch_objs(cfg.nargs, it, cfg.batch_size)
       IN /\ tc' = [tc EXCEPT !.model_results =
                      IF args = {} THEN @ ELSE @ \o [k \in 1..cfg.nobjs |-> k]]
          /\ ev' = [Ev0 EXCEPT !.kind = "predict_step", !.seen = args,
                                !.inputs = IF args = {} THEN {} ELSE 1..cfg.nobjs]
    /\ it' = it + cfg.batch_size
    /\ UNCHANGED <<pc, cfg, counters, files, clock, stopper, i, g>>

\* batch_predict: on_predict_end returns the results
PredictEnd ==
    /\ pc = "predict"
    /\ it >= cfg.nobjs
    /\ pc' = "ready"
    /\ ev' = [Ev0 EXCEPT !.kind = "predict_end"]
    /\ UNCHANGED <<cfg, counters, tc, files, clock, stopper, i, it, g>>

NextPredict ==
    \/ ValStart
    \/ ValStep
    \/ ValEnd
    \/ PredictStart
    \/ PredictStep
    \/ PredictEnd

SpecPredict == InitPredict /\ [][NextPredict]_vars

\* ------------------------------------------- weights-only save and load
\* the auxiliary items of a process that a checkpoint carries
AuxNames == {"optimizer", "counters", "stopper"}

\* whether the attribute is an object with load_state_dict, or a plain value
AuxKind(n) == IF n = "counters" THEN "plain" ELSE "obj"

\* a process: the model's state_dict and the state of its auxiliary attributes
Procs ==
    [model : [1..MaxParams -> 0..MaxItem],
     attrs : [AuxNames -> 0..MaxItem]]

\* a process after init_components, with its model's parameters as initialized
Untouched(m) == [model |-> m, attrs |-> [n \in AuxNames |-> 0]]

\* save_weight(save_path, save_items): ckpt = dict(model=state_dict); ckpt.update(save_items)
save_weight(p, save_items) ==
    [model |-> p.model, items |-> save_items]

\* model.load_state_dict(state, strict=False): the keys the model and the state share
load_state_dict(model, state) ==
    [k \in DOMAIN model |-> IF k \in DOMAIN state THEN state[k] ELSE model[k]]

\* a variant of load_names that takes every item of the file whatever the selection
load_names_all(ckpt, sel) == DOMAIN ckpt.items

\* load_weight: the names handed to _load, for save_items None or a list of names
load_names(ckpt, sel) ==
    IF ~sel.given THEN DOMAIN ckpt.items ELSE sel.names \cap DOMAIN ckpt.items

\* a variant of load_item that restores only through load_state_dict
load_item_objects_only(n, old, item) ==
    IF AuxKind(n) = "obj" THEN item ELSE old

\* load_weight._load(name, item): the state of the attribute afterwards, set by its
\* load_state_dict or, for a plain attribute, by assigning the item
load_item(n, old, item) ==
    IF AuxKind(n) = "obj" THEN item ELSE item

\* load_weight(save_path, save_items=sel)
load_weight(p, ckpt, sel) ==
    [model |-> load_state_dict(p.model, ckpt.model),
     attrs |-> [n \in AuxNames |->
                  IF n \in load_names(ckpt, sel)
                  THEN load_item(n, p.attrs[n], ckpt.items[n])
                  ELSE p.attrs[n]]]

CkptName == <<"ckpt", 0>>

InitLoad ==
    /\ pc = "proc"
    /\ cfg = [has_pretrain |-> TRUE]
    /\ counters = Counters0
    /\ tc \in Procs
    /\ files = {}
    /\ clock = 0
    /\ stopper = Stopper0(0)
    /\ i = 0
    /\ it = 0
    /\ g = G0
    /\ ev = Ev0

\* save(path, WEIGHT, save_items={name: state of the attribute}) as _check_train does
SaveWeight ==
    /\ pc = "proc"
    /\ \E names \in SUBSET AuxNames :
          files' = {[name |-> CkptName, ctime |-> clock + 1, src |-> tc,
                     ckpt |-> save_weight(tc, [n \in names |-> tc.attrs[n]])]}
    /\ clock' = clock + 1
    /\ pc' = "saved"
    /\ ev' = [Ev0 EXCEPT !.kind = "save"]
    /\ UNCHANGED <<cfg, counters, tc, stopper, i, it, g>>

\* another process is constructed: untouched, with any initial parameters
NewProcess ==
    /\ pc = "saved"
    /\ \E m \in [1..MaxParams -> 0..MaxItem] : tc' = Untouched(m)
    /\ pc' = "target"
    /\ ev' = [Ev0 EXCEPT !.kind = "new"]
    /\ UNCHANGED <<cfg, counters, files, clock, stopper, i, it, g>>

\* the saving process trains on: its parameters and items move away from the file
TrainOn ==
    /\ pc = "saved"
    /\ tc' = [model |-> [k \in 1..MaxParams |-> (tc.model[k] + 1) % (MaxItem + 1)],
              attrs |-> [n \in AuxNames |-> (tc.attrs[n] + 1) % (MaxItem + 1)]]
    /\ pc' = "target"
    /\ ev' = [Ev0 EXCEPT !.kind = "train_on"]
    /\ UNCHANGED <<cfg, counters, files, clock, stopper, i, it, g>>

\* load(path, WEIGHT, save_items=sel), sel None or a list of names
LoadWeight ==
    /\ pc = "target"
    /\ \E f \in files, sel \in [given : BOOLEAN, names : SUBSET AuxNames] :
          /\ ~sel.given => sel.names = {}
          /\ tc' = load_weight(tc, f.ckpt, sel)
          /\ ev' = [Ev0 EXCEPT !.kind = "load", !.selected = sel]
    /\ pc' = "loaded"
    /\ UNCHANGED <<cfg, counters, files, clock, stopper, i, it, g>>

\* load_pretrain: load(self.pretrain_model, save_items=())
LoadPretrain ==
    /\ pc = "target"
    /\ cfg.has_pretrain
    /\ \E f \in files :
          /\ tc' = load_weight(tc, f.ckpt, [given |-> TRUE, names |-> {}])
          /\ ev' = [Ev0 EXCEPT !.kind = "load_pretrain",
                               !.selected = [given |-> TRUE, names |-> {}]]
    /\ pc' = "loaded"
    /\ UNCHANGED <<cfg, counters, files, clock, stopper, i, it, g>>

NextLoad ==
    \/ SaveWeight
    \/ NewProcess
    \/ TrainOn
    \/ LoadWeight
    \/ LoadPretrain

SpecLoad == InitLoad /\ [][NextLoad]_vars

\* ------------------------------------------------------ image fragmenting
MaxImage == 4      \* image height and width range over 1..MaxImage
MaxTile == 3       \* max_size ranges over 1..MaxTile
MaxOver == 3       \* over_size ranges over 0..MaxOver

\* range(lo, hi, step) for a positive step, as the sequence Python iterates
range(lo, hi, step) ==
    [k \in 1..(IF hi > lo THEN (hi - lo + step - 1) \div step ELSE 0) |->
        lo + (k - 1) * step]

\* fragment_image: the body of the two loops for the corner (x1, y1) = (i, j);
\* keep is FALSE where the code continues without appending
fragment_tile(x1, y1, h, w, size, over_size) ==
    LET x2 == Min(x1 + size, w)
        y2 == Min(y1 + size, h)
    IN [keep |-> ~(w - x1 < over_size \/ h - y1 < over_size),
        coor |-> <<x1, y1,
                   IF w - x2 < over_size THEN w ELSE x2,
                   IF h - y2 < over_size THEN h ELSE y2>>]

\* fragment_image(image of h x w, max_size, overlap_size, over_size): coors, in the
\* order of the loops; int arguments stand for both axes, 0 for an argument not given
fragment_image(h, w, max_size, overlap_size, over_size) ==
    LET xs == range(0, w, max_size - overlap_size)
        ys == range(0, h, max_size - overlap_size)
        ny == Len(ys)
        tiles == [k \in 1..(Len(xs) * ny) |->
                    fragment_tile(xs[((k - 1) \div ny) + 1], ys[((k - 1) % ny) + 1],
                                  h, w, max_size, over_size)]
        kept == SelectSeq(tiles, LAMBDA t : t.keep)
    IN [k \in 1..Len(kept) |-> kept[k].coor]

\* images and tilings: the overlap is smaller than max_size
FragmentArgs ==
    {a \in [h : 1..MaxImage, w : 1..MaxImage, max_size : 1..MaxTile,
            overlap_size : 0..MaxTile, over_size : 0..MaxOver] :
        a.overlap_size < a.max_size}

InitFragment ==
    /\ pc = "image"
    /\ cfg \in FragmentArgs
    /\ counters = Counters0
    /\ tc = [coors |-> <<>>]
    /\ files = {}
    /\ clock = 0
    /\ stopper = Stopper0(0)
    /\ i = 0
    /\ it = 0
    /\ g = G0
    /\ ev = Ev0

\* images, coors = fragment_image(image, max_size, overlap_size, over_size)
FragmentImage ==
    /\ pc = "image"
    /\ tc' = [coors |-> fragment_image(cfg.h, cfg.w, cfg.max_size,
                                       cfg.overlap_size, cfg.over_size)]
    /\ pc' = "fragmented"
    /\ ev' = [Ev0 EXCEPT !.kind = "fragment"]
    /\ UNCHANGED <<cfg, counters, files, clock, stopper, i, it, g>>

NextFragment == FragmentImage

SpecFragment == InitFragment /\ [][NextFragment]_vars

\* ------------------------------------------------- non-maximum suppression
MaxDet == 3        \* the number of detections ranges over 0..MaxDet
MaxConf == 1       \* confidences range over 0..MaxConf
MaxIou == 1        \* overlaps and the threshold range over 0..MaxIou

\* the pairs of distinct detections iou_method is asked about
Pairs(n) == {S \in SUBSET (1..n) : Cardinality(S) = 2}

\* conf.argsort()[::-1]: the orders of the n detections by descending confidence;
\* the default sort leaves the order among equal confidences open
argsort_desc(conf, n) ==
    {p \in [1..n -> 1..n] :
        /\ \A k, l \in 1..n : k # l => p[k] # p[l]
        /\ \A k, l \in 1..n : k < l => conf[p[k]] >= conf[p[l]]}

\* np.where(ious < threshold): survival that also drops an overlap equal to the threshold
nms_survives_strict(iou, threshold) == iou < threshold

\* np.where(ious <= threshold): the detections that stay in index
nms_survives(iou, threshold) == iou <= threshold

\* non_max_suppression: the while loop over index, keep as built so far
RECURSIVE nms_loop(_, _, _, _)
nms_loop(index, keep, iou, threshold) ==
    IF index = <<>> THEN keep
    ELSE LET first == index[1]
             rest == SelectSeq(Tail(index),
                               LAMBDA d : nms_survives(iou[{first, d}], threshold))
         IN nms_loop(rest, Append(keep, first), iou, threshold)

\* non_max_suppression(boxes, conf, iou_method, threshold) for the ranking index
non_max_suppression(index, iou, threshold) == nms_loop(index, <<>>, iou, threshold)

\* detections: their confidences, the overlap iou_method gives each pair, the threshold
NmsArgs ==
    UNION {[n : {n}, conf : [1..n -> 0..MaxConf], iou : [Pairs(n) -> 0..MaxIou],
            threshold : 0..MaxIou] : n \in 0..MaxDet}

InitNms ==
    /\ pc = "detections"
    /\ cfg \in NmsArgs
    /\ counters = Counters0
    /\ tc = [index |-> <<>>, keep |-> <<>>]
    /\ files = {}
    /\ clock = 0
    /\ stopper = Stopper0(0)
    /\ i = 0
    /\ it = 0
    /\ g = G0
    /\ ev = Ev0

\* keep = cv_utils.non_max_suppression(bboxes, confs, iou_method, threshold)
NonMaxSuppression ==
    /\ pc = "detections"
    /\ \E index \in argsort_desc(cfg.conf, cfg.n) :
          tc' = [index |-> index,
                 keep |-> non_max_suppression(index, cfg.iou, cfg.threshold)]
    /\ pc' = "kept"
    /\ ev' = [Ev0 EXCEPT !.kind = "nms"]
    /\ UNCHANGED <<cfg, counters, files, clock, stopper, i, it, g>>

NextNms == NonMaxSuppression

SpecNms == InitNms /\ [][NextNms]_vars

\* ------------------------------------------------------- parameter search
MaxAlt == 2        \* a component has 0..MaxAlt variable-parameter alternatives
MaxPVal == 1       \* parameter values range over 1..MaxPVal

\* the components params describes; model is built by an instance, sys is not
Comps == {"model", "sys"}

\* self.var_instance: the components given with an instance
var_instance == {"model"}

\* the names of the parameters the alternatives and the constants set
ParamNames == {"a", "b"}

\* a dict of flat parameters, as the set of its (name, value) items
Dicts(names) ==
    {d \in SUBSET (names \X (1..MaxPVal)) : \A p, q \in d : p[1] = q[1] => p = q}

\* the keys of a dict
Keys(d) == {p[1] : p \in d}

\* configs.merge_dict(d1, d2) of flat dicts: d2 covers d1 on the keys they share
merge_dict(d1, d2) == d2 \cup {p \in d1 : p[1] \notin Keys(d2)}

\* the sequences of at most n elements of S
SeqsUpTo(S, n) == UNION {[1..m -> S] : m \in 0..n}

\* one component of params: its 'var' as permuted into a list of alternatives
\* (self.var_params[k]) and its 'const', each of them given or not
CompParams ==
    [has_var : BOOLEAN, var : SeqsUpTo(Dicts(ParamNames), MaxAlt),
     has_const : BOOLEAN, const : Dicts(ParamNames)]

\* ParamsSearch(process, params, process_kwargs, ...): a field that is not given
\* holds the empty value
SearchArgs ==
    {a \in [params : [Comps -> CompParams], process_kwargs : Dicts({"a"})] :
        \A k \in Comps : /\ ~a.params[k].has_var => a.params[k].var = <<>>
                         /\ ~a.params[k].has_const => a.params[k].const = {}}

\* self.var_params.get(k, []): a component without 'var' has no alternative at all
var_ps_or_none(c) == IF c.has_var THEN c.var ELSE <<>>

\* self.var_params.get(k, [{}]): a component without 'var' has the one empty alternative
var_ps_or(c) == IF c.has_var THEN c.var ELSE <<{}>>

\* [_ + [(var_p, const_p)] for _ in total_params for var_p in var_ps]; alt is the
\* position of var_p among the alternatives of its component
expand_key(total_params, var_ps, const_p) ==
    [n \in 1..(Len(total_params) * Len(var_ps)) |->
        Append(total_params[((n - 1) \div Len(var_ps)) + 1],
               [var_p |-> var_ps[((n - 1) % Len(var_ps)) + 1],
                const_p |-> const_p,
                alt |-> ((n - 1) % Len(var_ps)) + 1])]

\* ParamsSearch.__init__: for k in keys: ... over the keys from position n on
RECURSIVE expand_keys(_, _, _, _)
expand_keys(keys, n, params, total_params) ==
    IF n > Len(keys) THEN total_params
    ELSE expand_keys(keys, n + 1, params,
                     expand_key(total_params, var_ps_or(params[keys[n]]),
                                params[keys[n]].const))

\* set(self.var_params.keys()) | set(self.const_params.keys())
search_keys(params) == {k \in Comps : params[k].has_var \/ params[k].has_const}

\* the orders in which the set keys can be iterated
KeyOrders(K) ==
    {o \in [1..Cardinality(K) -> K] : \A k, l \in DOMAIN o : k # l => o[k] # o[l]}

\* ParamsSearch.run: for key, (var_p, const_p) in zip(self.keys, _): ... from
\* position n on; kwargs is [plain: the keyword parameters, inst: the instances]
RECURSIVE apply_keys(_, _, _, _)
apply_keys(keys, n, combo, kwargs) ==
    IF n > Len(keys) THEN kwargs
    ELSE LET key == keys[n]
             params == merge_dict(combo[n].var_p, combo[n].const_p)
         IN apply_keys(keys, n + 1, combo,
                IF key \in var_instance
                THEN [kwargs EXCEPT !.inst =
                         {q \in @ : q[1] # key} \cup {<<key, params>>}]
                ELSE [kwargs EXCEPT !.plain = merge_dict(@, params)])

\* sub_version: the variable parameters of the combination, key after key
sub_version(combo) == [n \in 1..Len(combo) |-> combo[n].var_p]

InitSearch ==
    /\ pc = "params"
    /\ cfg \in SearchArgs
    /\ counters = Counters0
    /\ tc = [keys |-> <<>>, total_params |-> <<>>,
             kwargs |-> [plain |-> {}, inst |-> {}], runs |-> <<>>]
    /\ files = {}
    /\ clock = 0
    /\ stopper = Stopper0(0)
    /\ i = 0
    /\ it = 0
    /\ g = G0
    /\ ev = Ev0

\* ParamsSearch.__init__
SearchInit ==
    /\ pc = "params"
    /\ \E keys \in KeyOrders(search_keys(cfg.params)) :
          tc' = [tc EXCEPT !.keys = keys,
                           !.total_params = expand_keys(keys, 1, cfg.params, << <<>> >>)]
    /\ pc' = "search"
    /\ ev' = [Ev0 EXCEPT !.kind = "search_init"]
    /\ UNCHANGED <<cfg, counters, files, clock, stopper, i, it, g>>

\* ParamsSearch.run: kwargs = copy.deepcopy(self.process_kwargs), before the loop
SearchRunStart ==
    /\ pc = "search"
    /\ tc' = [tc EXCEPT !.kwargs = [plain |-> cfg.process_kwargs, inst |-> {}]]
    /\ it' = 0
    /\ pc' = "sweep"
    /\ ev' = [Ev0 EXCEPT !.kind = "search_start"]
    /\ UNCHANGED <<cfg, counters, files, clock, stopper, i, g>>

\* ParamsSearch.run: one turn of for _ in self.total_params, the process built
\* from kwargs and run to its end
SearchRun ==
    /\ pc = "sweep"
    /\ it < Len(tc.total_params)
    /\ LET combo == tc.total_params[it + 1]
           kwargs == apply_keys(tc.keys, 1, combo, tc.kwargs)
       IN tc' = [tc EXCEPT !.kwargs = kwargs,
                           !.runs = Append(@, [alts |-> [n \in 1..Len(combo) |-> combo[n].alt],
                                               kwargs |-> kwargs,
                                               dataset_version |-> sub_version(combo)])]
    /\ it' = it + 1
    /\ ev' = [Ev0 EXCEPT !.kind = "search_run"]
    /\ UNCHANGED <<pc, cfg, counters, files, clock, stopper, i, g>>

\* ParamsSearch.run: the loop is exhausted
SearchEnd ==
    /\ pc = "sweep"
    /\ it >= Len(tc.total_params)
    /\ pc' = "swept"
    /\ ev' = [Ev0 EXCEPT !.kind = "search_end"]
    /\ UNCHANGED <<cfg, counters, tc, files, clock, stopper, i, it, g>>

NextSearch ==
    \/ SearchInit
    \/ SearchRunStart
    \/ SearchRun
    \/ SearchEnd

SpecSearch == InitSearch /\ [][NextSearch]_vars

\* ------------------------------------ the keyword dicts shared between calls
\* A dataloader_kwargs dict is modelled by its 'batch_size' entry: NoKey when the
\* dict has no such key.  The dict() defaults of on_train_start, on_val_start and
\* Process.run are created once, when the function is defined, and every call that
\* does not pass the argument receives that same dict, on every instance.
NoKey == 0

\* dataloader_kwargs.setdefault('batch_size', batch_size): the entry after the call
setdefault(d, batch_size) == IF d = NoKey THEN batch_size ELSE d

\* the dataloader_kwargs a caller may pass: none, or a dict of their own
PassedKwargs == [given : {FALSE}, d : {NoKey}] \cup [given : {TRUE}, d : {NoKey} \cup 1..MaxBatch]

\* the dicts held by the function objects, all empty when the module is imported
InitKwargs ==
    /\ pc = "ready"
    /\ cfg = [insts |-> MaxInst]
    /\ counters = Counters0
    /\ tc = [on_train_start |-> NoKey, on_val_start |-> NoKey,
             run_fit |-> NoKey, run_metric |-> NoKey]
    /\ files = {}
    /\ clock = 0
    /\ stopper = Stopper0(0)
    /\ i = 0
    /\ it = 0
    /\ g = G0
    /\ ev = [kind |-> "none", inst |-> 0, batch_size |-> 0, given |-> FALSE,
             used |-> 0, val_batch_size |-> 0, val_used |-> 0, calls |-> 0]

\* fit(batch_size=b[, dataloader_kwargs=k]) on the process inst: on_train_start sets
\* the default into the dict it received and builds the train dataloader from it
Fit ==
    /\ pc = "ready"
    /\ \E inst \in 1..cfg.insts, b \in 1..MaxBatch, k \in PassedKwargs :
          LET d == IF k.given THEN k.d ELSE tc.on_train_start
              d1 == setdefault(d, b)
          IN /\ tc' = IF k.given THEN tc ELSE [tc EXCEPT !.on_train_start = d1]
             /\ ev' = [kind |-> "fit", inst |-> inst, batch_size |-> b,
                       given |-> k.given, used |-> d1,
                       val_batch_size |-> 0, val_used |-> 0,
                       calls |-> Min(ev.calls + 1, MaxCalls)]
    /\ UNCHANGED <<pc, cfg, counters, files, clock, stopper, i, it, g>>

\* predict(batch_size=b[, dataloader_kwargs=k]), or a metric() that passes its
\* arguments on to predict(): on_val_start builds the val dataloader
Predict ==
    /\ pc = "ready"
    /\ \E inst \in 1..cfg.insts, b \in 1..MaxBatch, k \in PassedKwargs :
          LET d == IF k.given THEN k.d ELSE tc.on_val_start
              d1 == setdefault(d, b)
          IN /\ tc' = IF k.given THEN tc ELSE [tc EXCEPT !.on_val_start = d1]
             /\ ev' = [kind |-> "predict", inst |-> inst, batch_size |-> b,
                       given |-> k.given, used |-> d1,
                       val_batch_size |-> 0, val_used |-> 0,
                       calls |-> Min(ev.calls + 1, MaxCalls)]
    /\ UNCHANGED <<pc, cfg, counters, files, clock, stopper, i, it, g>>

\* run(train_batch_size=b, predict_batch_size=pb) with neither fit_kwargs nor
\* metric_kwargs (pb = NoKey is None): fit_kwargs.setdefault('dataloader_kwargs',
\* dict(num_workers=...)) keeps the dict in run's default fit_kwargs, fit() hands it
\* to on_train_start; the same with metric_kwargs and metric()
Run ==
    /\ pc = "ready"
    /\ \E inst \in 1..cfg.insts, b \in 1..MaxBatch, pb \in {NoKey} \cup 1..MaxBatch :
          LET vb == IF pb = NoKey THEN b ELSE pb
              d1 == setdefault(tc.run_fit, b)
              m1 == setdefault(tc.run_metric, vb)
          IN /\ tc' = [tc EXCEPT !.run_fit = d1, !.run_metric = m1]
             /\ ev' = [kind |-> "run", inst |-> inst, batch_size |-> b,
                       given |-> FALSE, used |-> d1,
                       val_batch_size |-> vb, val_used |-> m1,
                       calls |-> Min(ev.calls + 1, MaxCalls)]
    /\ UNCHANGED <<pc, cfg, counters, files, clock, stopper, i, it, g>>

NextKwargs == Fit \/ Predict \/ Run

SpecKwargs == InitKwargs /\ [][NextKwargs]_vars

\* ------------------------------------------------------ os_lib.Retry.add_try
MaxCount == 3      \* Retry.count ranges over 0..MaxCount

\* what one invocation of the wrapped function does: it returns, raises an exception
\* of err_type, or raises another exception
Outcomes == {"ok", "err", "other"}

\* the outcomes of the invocations, were the function invoked that often
RetryArgs == [count : 0..MaxCount, outs : [1..(MaxCount + 1) -> Outcomes]]

\* Retry(count=count) and a call of the wrapped function
InitRetry ==
    /\ pc = "call"
    /\ cfg \in RetryArgs
    /\ counters = Counters0
    /\ tc = [invoked |-> 0, result |-> 0, raised |-> 0, slept |-> 0]
    /\ files = {}
    /\ clock = 0
    /\ stopper = Stopper0(0)
    /\ i = 0
    /\ it = 0
    /\ g = G0
    /\ ev = [kind |-> "none"]

\* a variant of add_try_last that gives up one attempt later
add_try_last_late(n, count) == n >= count

\* wrap: if i >= self.count - 1: raise e
add_try_last(n, count) == n >= count - 1

\* wrap: one pass of 'for i in range(self.count)': the function is invoked; its
\* result is returned, an exception outside err_type propagates, an err_type
\* exception is raised again on the last pass and followed by a sleep otherwise
Attempt ==
    /\ pc = "call"
    /\ i < cfg.count
    /\ LET out == cfg.outs[i + 1]
       IN /\ pc' = CASE out = "ok" -> "returned"
                     [] out = "other" -> "raised"
                     [] out = "err" -> IF add_try_last(i, cfg.count)
                                       THEN "raised" ELSE "call"
          /\ tc' = [tc EXCEPT !.invoked = @ + 1,
                              !.result = IF out = "ok" THEN i + 1 ELSE @,
                              !.raised = IF out = "other"
                                            \/ (out = "err" /\ add_try_last(i, cfg.count))
                                         THEN i + 1 ELSE @,
                              !.slept = IF out = "err" /\ ~add_try_last(i, cfg.count)
                                        THEN @ + 1 ELSE @]
          /\ ev' = [kind |-> out]
    /\ i' = i + 1
    /\ UNCHANGED <<cfg, counters, files, clock, stopper, it, g>>

\* wrap: the for loop ran out of passes; the function ends and returns None
Exhausted ==
    /\ pc = "call"
    /\ i >= cfg.count
    /\ pc' = "none"
    /\ ev' = [kind |-> "exhausted"]
    /\ UNCHANGED <<cfg, counters, tc, files, clock, stopper, i, it, g>>

NextRetry == Attempt \/ Exhausted

SpecRetry == InitRetry /\ [][NextRetry]_vars

\* ------------------------------------------------------------------ claims
\* C1, as stated: during fit total_steps advances by exactly 1 on a batch whose
\* optimizer step is applied, by 0 on a batch whose optimizer step is skipped by
\* accumulation, and never decreases.
C1_StepsCountOptimizerSteps ==
    [][counters'.total_steps - counters.total_steps = g'.opt_steps - g.opt_steps]_vars

\* C1, amended: during fit total_steps advances by exactly 1 on every processed batch,
\* whether or not the optimizer step was applied on it, by 0 otherwise, and never
\* decreases.
C1_StepsCountBatches ==
    [][/\ counters'.total_steps - counters.total_steps = g'.fwd - g.fwd
       /\ g'.fwd - g.fwd = (IF ev'.kind = "step" THEN 1 ELSE 0)]_vars

\* a batch whose optimizer step was skipped by accumulation has been counted
C1_Witness ==
    /\ ev.kind = "step" /\ ~ev.fired /\ cfg.accumulate # 0
    /\ counters.total_steps = g.opt_steps + 1

\* batches of uniform size: the batch size divides the training set
Uniform == cfg.data_n % cfg.batch_size = 0

\* C2, as stated: with batches of uniform size B and accumulation window W the number
\* of optimizer steps is floor(total_samples / W) or one less, and never more.
C2_StepsAtMostFloor ==
    (Uniform /\ cfg.accumulate # 0) =>
        /\ g.opt_steps <= counters.total_nums \div cfg.accumulate
        /\ g.opt_steps >= (counters.total_nums \div cfg.accumulate) - 1

\* C2, amended: with batches of uniform size B and window W >= B, after n >= 1 batches
\* the number of optimizer steps is floor((n - 1) * B / W) + 1, which is
\* floor(total_samples / W) or one more (the first batch always steps), never less;
\* with W < B the optimizer steps on every batch.
C2_StepsFloorOrOneMore ==
    (Uniform /\ cfg.accumulate # 0 /\ counters.total_nums > 0) =>
        IF cfg.batch_size <= cfg.accumulate
        THEN /\ g.opt_steps =
                    ((counters.total_nums - cfg.batch_size) \div cfg.accumulate) + 1
             /\ g.opt_steps >= counters.total_nums \div cfg.accumulate
             /\ g.opt_steps <= (counters.total_nums \div cfg.accumulate) + 1
        ELSE g.opt_steps = g.fwd

\* uniform batches smaller than the window, several batches, one optimizer step more
\* than floor(total_samples / W)
C2_Witness ==
    /\ Uniform /\ cfg.accumulate # 0 /\ cfg.batch_size < cfg.accumulate
    /\ g.fwd >= 3 /\ g.opt_steps < g.fwd
    /\ g.opt_steps = (counters.total_nums \div cfg.accumulate) + 1

\* C3: when some step of a checkpoint interval returned a NaN or infinite loss, the
\* routine at the interval's boundary detects it and sets the termination flag, also
\* when the steps after it returned finite losses.
C3_NonFiniteDetectedAtBoundary ==
    (ev.routine /\ ev.bad_before) => (ev.detected /\ tc.end_flag)

\* a routine has run at the end of an interval whose last loss was finite and in
\* which an earlier loss was not
C3_Witness ==
    /\ ev.routine /\ ev.bad_before /\ ~isnan_or_isinf(tc.losses.loss)
    /\ tc.end_flag

\* C4: after a run that a NaN or infinite loss has terminated, and in which a routine
\* had written a valid last.pth before that loss, last.pth holds the state as of the
\* step of that loss at the latest, and was not written by the routine that detected
\* the loss.
C4_LastValidIntact ==
    (pc = "done" /\ g.detected /\ g.routines >= 2) =>
        \A f \in files :
            f.name = LastName =>
                /\ ~f.det
                /\ f.ckpt.counters.total_steps <= g.first_bad

\* the numbered files of the run directory
Numbered(fs) == {f \in fs : f.name[1] = "num"}

\* the training counters that are present, with their values
TrainCounters(c) ==
    [epoch |-> IF "epoch" \in c.keys THEN c.epoch ELSE 0,
     total_nums |-> IF "total_nums" \in c.keys THEN c.total_nums ELSE 0,
     total_steps |-> c.total_steps, per_epoch_nums |-> c.per_epoch_nums,
     check_nums |-> c.check_nums, check_loss |-> c.check_loss]

C7_BestAndLastOutsideSeries ==
    /\ ev.removed \notin {BestName, LastName}
    /\ ev.removed # NoName =>
          Cardinality(Numbered(files)) >= cfg.max_save_weight_num
    /\ \A n \in ev.seen : n[1] = "num"

\* C8, as stated: evaluating a strictly increasing score sequence (of two scores or
\* more) never returns stop, whatever the threshold, patience and min_epoch and
\* however small the increments.
C8_IncreasingNeverStops ==
    (ev.kind = "evaluate" /\ g.es_inc /\ g.es_calls >= 2) => ~ev.ret

\* C8, amended: evaluating a score sequence in which every score evaluated at or after
\* min_epoch exceeds the best score so far by more than the threshold never returns
\* stop, whatever the threshold, patience and min_epoch.
C8_QualifyingNeverStops ==
    (ev.kind = "evaluate" /\ g.es_qual) => (~ev.ret /\ stopper.acc_epoch = 0)

\* three evaluations at or after min_epoch have each improved on the best score by
\* more than the threshold
C8_Witness ==
    /\ ev.kind = "evaluate" /\ g.es_qual /\ g.es_calls >= 3 /\ cfg.patience # 0
    /\ stopper.best_epoch >= cfg.min_epoch + 2 /\ stopper.best_fitness = ev.score
    /\ ev.epoch - cfg.min_epoch >= cfg.patience

C10_ImprovesOrAccumulates ==
    (ev.kind = "evaluate" /\ ev.epoch >= cfg.min_epoch) =>
        IF ev.improved
        THEN stopper.best_fitness = ev.score /\ stopper.best_epoch = ev.epoch
        ELSE stopper.acc_epoch = ev.acc_before + ev.elapsed

BestOf(fs) == {f \in fs : f.name = BestName}

\* C12: best.pth is written only inside a checkpoint-and-metric routine, after that
\* routine's metric evaluation has returned a score above best_score, and before any
\* later training step: what it holds are the counters of the step of the routine.
C12_BestFollowsMetric ==
    [][(BestOf(files') # {} /\ BestOf(files') # BestOf(files)) =>
          /\ ev'.kind \in {"step", "epoch_end"}
          /\ ev'.routine /\ ev'.metric /\ ev'.wrote_best
          /\ ev'.score > stopper.best_fitness
          /\ \E a, b \in DOMAIN ev'.log :
                a < b /\ ev'.log[a] = "metric" /\ ev'.log[b] = "best"
          /\ \A b \in DOMAIN ev'.log : ev'.log[b] = "best" =>
                \E a \in 1..(b - 1) : ev'.log[a] = "metric"
          /\ \A f \in BestOf(files') :
                /\ f.ckpt.counters.total_steps = counters'.total_steps
                /\ f.ckpt.counters.epoch = counters'.epoch]_vars

\* best.pth has been written a second time, by a later routine
C12_Witness ==
    /\ ev.wrote_best /\ g.nbest >= 2 /\ g.routines >= 2
    /\ BestOf(files) # {}

C14_EvaluatedOncePerMetric ==
    [][/\ stopper' # stopper => ev'.evaluated = 1
       /\ (ev'.metric /\ cfg.use_early_stop) => ev'.evaluated = 1]_vars

\* C15: no step of predict, metric, single_predict or batch_predict changes a
\* training counter: epoch, total_nums, total_steps, per_epoch_nums, check_nums and
\* the check_loss sum have after the step the values they had before it.
C15_PipelineKeepsCounters ==
    [][(ev'.kind \in {"val_start", "val_step", "val_end",
                      "predict_start", "predict_step", "predict_end"}
        /\ StartKeys \subseteq counters.keys) =>
          TrainCounters(counters') = TrainCounters(counters)]_vars

\* C16: with an EMA shadow model the EMA update is invoked once per optimizer step:
\* as often as the optimizer has stepped, and not on a batch whose optimizer step
\* gradient accumulation skips.
C16_EmaOncePerOptimizerStep ==
    cfg.use_ema =>
        /\ g.ema_steps = g.opt_steps
        /\ (ev.kind = "step" /\ ~ev.fired) => ~ev.ema

\* C17: counters.epoch changes only by +1 and only at the end of a completed pass
\* over the training batches: a pass that step-level termination cut short (the
\* dataloader had samples left) does not advance it.
C17_EpochCountsCompletedPasses ==
    [][counters'.epoch # counters.epoch =>
          /\ counters'.epoch = counters.epoch + 1
          /\ it >= cfg.data_n]_vars

\* C18: after the samples of a checkpoint interval in which every training step
\* reported the same loss L, the running mean loss equals L exactly, for every batch
\* size.
C18_MeanOfConstantLoss ==
    (tc.losses.set /\ g.same /\ ~isnan_or_isinf(tc.losses.loss)) =>
        /\ tc.losses.mean.k = "fin"
        /\ tc.losses.mean.num = tc.losses.loss.v * tc.losses.mean.den

C20_LoadRestoresSelection ==
    [][ev'.kind \in {"load", "load_pretrain"} =>
          \A f \in files :
              /\ tc'.model = f.ckpt.model
              /\ \A n \in AuxNames :
                    IF /\ n \in DOMAIN f.ckpt.items
                       /\ (ev'.selected.given => n \in ev'.selected.names)
                    THEN tc'.attrs[n] = f.ckpt.items[n]
                    ELSE tc'.attrs[n] = tc.attrs[n]
              /\ (ev'.selected.given /\ ev'.selected.names = {}) =>
                    tc'.attrs = tc.attrs]_vars

\* a load with a selection has restored a named item and has left an item of the file
\* that was not named at a value other than the file's
C20_Witness ==
    /\ ev.kind = "load" /\ ev.selected.given
    /\ \E f \in files :
          /\ \E n \in ev.selected.names \cap DOMAIN f.ckpt.items :
                tc.attrs[n] = f.ckpt.items[n] /\ f.ckpt.items[n] # 0
          /\ \E n \in DOMAIN f.ckpt.items \ ev.selected.names :
                tc.attrs[n] # f.ckpt.items[n]

\* C21: once the termination flag is set during fit it stays set, no further training
\* step (and no further epoch) is started in that fit, and on_train_end is reached.
C21_CooperativeTermination ==
    /\ [][tc.end_flag =>
            (tc'.end_flag /\ ev'.kind \notin {"step", "epoch_start"})]_vars
    /\ (tc.end_flag ~> pc = "done")

\* fit has ended after the flag was set at a step end with samples and epochs left
C21_Witness ==
    /\ pc = "done" /\ tc.end_flag /\ it < cfg.data_n /\ i < cfg.max_epoch
    /\ cfg.check_strategy = STEP /\ g.fwd >= 1

\* C22: during a predict() with visualization enabled and a maximum configured, 0
\* included, the number of samples handed to visualize(), counters.vis_num, never
\* exceeds max_vis_num.
C22_VisNumBounded ==
    (pc = "val" /\ cfg.is_visualize /\ cfg.max_vis_num # NONE) =>
        counters.vis_num <= cfg.max_vis_num

\* C23: batch_predict over n inputs with batch size b hands every input to the step
\* hook exactly once, in consecutive batches of at most b inputs: the turn of the
\* loop that ends at position it receives the inputs it - b + 1 .. it (within 1..n),
\* and the run returns the n predictions in input order.
C23_ConsecutiveBatches ==
    /\ (pc = "predict" /\ ev.kind = "predict_step") =>
           ev.inputs = {k \in 1..cfg.nobjs : it - cfg.batch_size < k /\ k <= it}
    /\ (pc = "ready" /\ ev.kind = "predict_end") =>
           tc.model_results = [k \in 1..cfg.nobjs |-> k]

\* the tile rectangle lies inside the image of h x w and is not empty
Inside(c, h, w) ==
    /\ 0 <= c[1] /\ c[1] < c[3] /\ c[3] <= w
    /\ 0 <= c[2] /\ c[2] < c[4] /\ c[4] <= h

\* every pixel of the image of h x w lies in one of the tile rectangles
Covers(coors, h, w) ==
    \A x \in 0..(w - 1), y \in 0..(h - 1) :
        \E k \in 1..Len(coors) :
            /\ coors[k][1] <= x /\ x < coors[k][3]
            /\ coors[k][2] <= y /\ y < coors[k][4]

\* C24: for every image size and every tiling with overlap smaller than max_size,
\* the tile rectangles fragment_image returns lie inside the image and their union
\* covers the whole image, images smaller than over_size included.
C24_TilesCoverImage ==
    pc = "fragmented" =>
        /\ \A k \in 1..Len(tc.coors) : Inside(tc.coors[k], cfg.h, cfg.w)
        /\ Covers(tc.coors, cfg.h, cfg.w)

\* the detections non_max_suppression returned
Kept == {tc.keep[k] : k \in 1..Len(tc.keep)}

\* the position of detection d in the ranking by descending confidence
Rank(d) == CHOOSE k \in 1..cfg.n : tc.index[k] = d

\* C25, as stated: non_max_suppression keeps the highest-confidence detection, a
\* detection is suppressed if and only if its overlap with some surviving detection
\* of higher confidence exceeds the threshold, and no two surviving detections
\* overlap by more than the threshold.
C25_SuppressedIffHigherConfidence ==
    (pc = "kept" /\ cfg.n >= 1) =>
        /\ \A d \in 1..cfg.n : cfg.conf[tc.keep[1]] >= cfg.conf[d]
        /\ \A d \in 1..cfg.n :
              d \notin Kept <=>
                  \E k \in Kept : /\ cfg.conf[k] > cfg.conf[d]
                                  /\ cfg.iou[{k, d}] > cfg.threshold
        /\ \A a, b \in Kept : a # b => cfg.iou[{a, b}] <= cfg.threshold

\* C25, amended: non_max_suppression keeps a detection of the highest confidence, a
\* detection is suppressed if and only if its overlap with some surviving detection
\* ranked before it (of higher or equal confidence) exceeds the threshold, and no
\* two surviving detections overlap by more than the threshold.
C25_SuppressedIffHigherRanked ==
    (pc = "kept" /\ cfg.n >= 1) =>
        /\ \A d \in 1..cfg.n : cfg.conf[tc.keep[1]] >= cfg.conf[d]
        /\ \A d \in 1..cfg.n :
              d \notin Kept <=>
                  \E k \in Kept : /\ Rank(k) < Rank(d)
                                  /\ cfg.conf[k] >= cfg.conf[d]
                                  /\ cfg.iou[{k, d}] > cfg.threshold
        /\ \A a, b \in Kept : a # b => cfg.iou[{a, b}] <= cfg.threshold

\* a detection suppressed by a survivor of equal confidence, beside another survivor
C25_Witness ==
    /\ pc = "kept" /\ Len(tc.keep) = 2 /\ cfg.n = 3
    /\ \E d \in 1..cfg.n : \E k \in Kept :
          /\ d \notin Kept
          /\ cfg.conf[k] = cfg.conf[d]
          /\ cfg.iou[{k, d}] > cfg.threshold

\* the number of alternatives of the component at position n of keys
NumAlt(n) ==
    IF cfg.params[tc.keys[n]].has_var THEN Len(cfg.params[tc.keys[n]].var) ELSE 1

\* the combinations: one alternative for each component of keys
Combos == {c \in [1..Len(tc.keys) -> 1..MaxAlt] : \A n \in 1..Len(tc.keys) : c[n] <= NumAlt(n)}

\* C26: the search enumerates the cartesian product of the per-component
\* alternatives: the number of runs is the product of the numbers of alternatives
\* of the components, every combination is run exactly once, and the runs execute
\* one after another.
C26_RunsAreCartesianProduct ==
    /\ pc = "swept" =>
          /\ Len(tc.runs) = Cardinality(Combos)
          /\ {tc.runs[n].alts : n \in 1..Len(tc.runs)} = Combos
          /\ \A m, n \in 1..Len(tc.runs) : tc.runs[m].alts = tc.runs[n].alts => m = n
    /\ pc = "sweep" => Len(tc.runs) = it

\* the search has run the four combinations of two components with two alternatives
C26_Witness ==
    /\ pc = "swept" /\ Len(tc.runs) = 4 /\ Len(tc.keys) = 2
    /\ tc.runs[1].alts # tc.runs[4].alts

\* C27: each run of the search is fresh and isolated: the parameters handed to the
\* process of a run are exactly process_kwargs plus the constant and variable
\* parameters of that run's combination, so no parameter set for an earlier
\* combination is still present in a later run whose combination does not set it.
C27_RunsAreIsolated ==
    pc \in {"sweep", "swept"} =>
        \A n \in 1..Len(tc.runs) :
            tc.runs[n].kwargs =
                apply_keys(tc.keys, 1, tc.total_params[n],
                           [plain |-> cfg.process_kwargs, inst |-> {}])

\* C28: counters persist across checkpoint and resume: a fit started with
\* counters['epoch'] = e restored from a checkpoint and horizon max_epoch executes
\* exactly max_epoch - e epochs when no termination fires (none when e >= max_epoch),
\* and the epoch counter a checkpoint carries is the number of passes completed when
\* it was written, so the interrupted and the resumed run train max_epoch epochs
\* in total.
C28_ResumeRunsRemainingEpochs ==
    /\ (pc = "done" /\ g.restored # -1 /\ ~tc.end_flag) =>
          g.passes = IF g.restored >= cfg.max_epoch THEN 0
                     ELSE cfg.max_epoch - g.restored
    /\ \A f \in files :
          (f.ctime = clock /\ ev.routine) =>
              f.ckpt.counters.epoch =
                  (IF g.restored = -1 THEN 0 ELSE g.restored) + g.passes
                  - (IF ev.kind = "step" THEN 1 ELSE 0)

\* a run interrupted after its first epoch and resumed from that checkpoint has
\* trained the one remaining epoch of a horizon of two
C28_Witness ==
    /\ pc = "done" /\ g.restored = 1 /\ cfg.max_epoch = 2 /\ g.passes = 1
    /\ ~tc.end_flag

\* C29: every training step executes with all models in training mode: a metric
\* evaluation triggered by the checkpoint routine runs with the models in
\* evaluation mode, and training mode is restored before the next training step.
C29_StepsRunInTrainingMode ==
    /\ pc = "batch" => \A m \in Models : tc.train[m]
    /\ ev.metric => ev.in_eval

\* a metric evaluation has run in evaluation mode and another training step is due
C29_Witness ==
    /\ pc = "batch" /\ ev.kind = "step" /\ ev.metric /\ ev.in_eval
    /\ cfg.use_ema /\ \A m \in Models : tc.train[m]

\* C30, as stated: with accumulation window W the optimizer step fires on a batch
\* if and only if that batch crosses an accumulation boundary: the running sample
\* count is below a multiple of W before the batch and at or above it after.
C30_FiresOnCrossingBatch ==
    [][(ev'.kind = "step" /\ cfg.accumulate # 0) =>
          (ev'.fired <=>
              \E k \in 1..counters'.total_nums :
                  /\ counters.total_nums < k * cfg.accumulate
                  /\ k * cfg.accumulate <= counters'.total_nums)]_vars

\* C30, amended: with accumulation window W the optimizer step fires on a batch if
\* and only if the running sample count before the batch is at a multiple of W
\* (0 included) or past it by less than batch_size: the first batch, and the batch
\* that follows one that reached or crossed a boundary.
C30_FiresAfterBoundary ==
    [][(ev'.kind = "step" /\ cfg.accumulate # 0) =>
          (ev'.fired <=>
              \E k \in 0..counters.total_nums :
                  /\ k * cfg.accumulate <= counters.total_nums
                  /\ counters.total_nums < k * cfg.accumulate + cfg.batch_size)]_vars

\* a batch that did not fire and a batch after a boundary that did, with a window
\* wider than a batch
C30_Witness ==
    /\ ev.kind = "step" /\ ev.fired /\ cfg.accumulate > cfg.batch_size
    /\ g.opt_steps >= 2 /\ g.fwd > g.opt_steps

\* C31: with a scheduler enabled, the scheduler is advanced exactly once per
\* processed batch and never at an epoch end when the strategy is per-step, and
\* exactly once per epoch end and never per batch when the strategy is per-epoch.
C31_SchedulerCadence ==
    [][/\ ev'.kind = "step" =>
             tc'.scheduler.last_epoch - tc.scheduler.last_epoch =
                 (IF cfg.scheduler_strategy = STEP THEN 1 ELSE 0)
       /\ ev'.kind = "epoch_end" =>
             tc'.scheduler.last_epoch - tc.scheduler.last_epoch =
                 (IF cfg.scheduler_strategy = EPOCH THEN 1 ELSE 0)]_vars

\* a per-step scheduler after two batches and an epoch end
C31_Witness ==
    /\ cfg.use_scheduler /\ cfg.scheduler_strategy = STEP /\ ev.kind = "epoch_end"
    /\ g.fwd = 2 /\ tc.scheduler.last_epoch = 1 /\ g.restored = -1

\* C38: a run interrupted after e completed epochs and resumed from its checkpoint
\* continues the learning-rate schedule: after on_train_start of the resumed fit the
\* scheduler stands where the uninterrupted run's scheduler stood when the
\* checkpoint was written (e steps from its start under the per-epoch strategy, one
\* per batch seen under the per-step strategy), not at the start.
C38_ResumedSchedulerPosition ==
    (pc \in {"epoch", "end"} /\ ev.kind = "train_start" /\ g.restored # -1) =>
        tc.scheduler.last_epoch =
            -1 + (IF cfg.scheduler_strategy = EPOCH THEN g.restored
                  ELSE counters.total_steps)

\* C32: under the per-epoch cadence the checkpoint part of the routine runs at the
\* end of every epoch, and the metric evaluation runs only at the end of the epochs
\* whose 0-based index i has i mod check_period = check_period - 1, and never when
\* check_period is unset.
C32_EpochCadence ==
    [][(ev'.kind = "epoch_end" /\ cfg.check_strategy = EPOCH) =>
          /\ ev'.routine
          /\ ev'.metric <=>
                (cfg.check_period # 0 /\ i % cfg.check_period = cfg.check_period - 1)]_vars

\* the second epoch of a run with check_period 2 ends with checkpoint and metric
C32_Witness ==
    /\ ev.kind = "epoch_end" /\ cfg.check_strategy = EPOCH /\ cfg.check_period = 2
    /\ i = 2 /\ ev.routine /\ ev.metric

\* C33: at every step end counters['check_nums'] equals the number of samples
\* consumed since the last checkpoint-and-metric routine (or since the counters were
\* created), and check_nums and the check_loss running sum are 0 right after each
\* routine.
C33_CheckNumsSinceRoutine ==
    /\ ev.kind = "step" => counters.check_nums = g.since
    /\ ev.routine => (counters.check_nums = 0 /\ counters.check_loss = Fin(0))

\* two batches since the last routine, after an earlier routine
C33_Witness ==
    /\ ev.kind = "step" /\ ~ev.routine /\ g.routines >= 1 /\ counters.check_nums = 2

\* the step from before to after samples reached or passed a multiple of period
Crossed(before, after, period) ==
    \E k \in 1..after : before < k * period /\ k * period <= after

\* C34, as stated: under the per-step cadence the routine runs at a step end if and
\* only if that step made total_nums reach or pass a multiple of check_period, for
\* any mix of full and short batches.
C34_RoutineIffCrossed ==
    [][(ev'.kind = "step" /\ cfg.check_strategy = STEP /\ cfg.check_period # 0) =>
          (ev'.routine <=>
              Crossed(counters.total_nums, counters'.total_nums, cfg.check_period))]_vars

\* C34, amended: under the per-step cadence the routine runs at a step end if and
\* only if total_nums after the step is at a multiple of check_period (0 included) or
\* past it by less than batch_size. Every step that reached or passed a multiple
\* runs the routine; a step of batch_size samples runs it only then, a step after
\* a short batch can run it without having passed one.
C34_RoutineNearMultiple ==
    [][(ev'.kind = "step" /\ cfg.check_strategy = STEP /\ cfg.check_period # 0) =>
          /\ ev'.routine <=>
                \E k \in 0..counters'.total_nums :
                    /\ k * cfg.check_period <= counters'.total_nums
                    /\ counters'.total_nums < k * cfg.check_period + cfg.batch_size
          /\ Crossed(counters.total_nums, counters'.total_nums, cfg.check_period)
                => ev'.routine
          /\ (counters'.total_nums - counters.total_nums = cfg.batch_size /\ ev'.routine)
                => Crossed(counters.total_nums, counters'.total_nums, cfg.check_period)]_vars

\* a routine at a step that passed no multiple: the batch before it was short
C34_Witness ==
    /\ ev.kind = "step" /\ ev.routine /\ cfg.check_strategy = STEP
    /\ cfg.check_period = 2 /\ cfg.batch_size = 2 /\ counters.total_nums = 3
    /\ cfg.data_n = 3

\* C35: with retention max_size = max_save_weight_num > 0, after every
\* checkpoint-and-metric routine of any sequence of routines, those that write
\* best.pth included, at most max_size numbered checkpoint files are kept in the
\* run directory.
C35_NumberedWithinRetention ==
    (ev.routine /\ cfg.max_save_weight_num # NONE /\ cfg.max_save_weight_num > 0) =>
        Cardinality(Numbered(files)) <= cfg.max_save_weight_num

\* C36: after any sequence of metric events, best.pth is the checkpoint of the
\* event with the highest score so far: a metric event whose score is lower than the
\* score of the event stored in best.pth never overwrites best.pth.
C36_BestNeverLowered ==
    [][ev'.wrote_best =>
          \A f \in BestOf(files) : ev'.score >= f.score]_vars

\* C37: the auxiliary state stored in best.pth reflects the metric evaluation that
\* justified it: the stopper state saved in it has best_score equal to the score of
\* that evaluation, and its counters equal those of the checkpoint the same routine
\* wrote before the evaluation.
C37_BestAuxiliaryState ==
    [][ev'.wrote_best =>
          \A f \in BestOf(files') :
              /\ f.ckpt.stopper.best_fitness = ev'.score
              /\ \A h \in files' : h.ctime = f.ctime - 1 =>
                     h.ckpt.counters = f.ckpt.counters]_vars

\* C39: the batch size used to build the dataloader in a fit, predict or metric
\* call that passes no dataloader_kwargs is the batch_size passed to that call, on
\* whichever instance and after whichever earlier calls.
C39_BatchSizeOfTheCall ==
    (ev.kind \in {"fit", "predict", "run"} /\ ~ev.given) =>
        /\ ev.used = ev.batch_size
        /\ ev.kind = "run" => ev.val_used = ev.val_batch_size

\* C40: a function wrapped by Retry.add_try with count >= 1 is invoked at most
\* count times; the wrapper returns the result of the first invocation that does
\* not raise, raises the exception of the count-th invocation when all of them
\* raise an err_type exception, and lets an exception outside err_type propagate
\* from its first occurrence without another attempt.
C40_RetryAtMostCount ==
    cfg.count >= 1 =>
        /\ tc.invoked <= cfg.count
        /\ pc # "none"
        /\ \A k \in 1..(tc.invoked - 1) : cfg.outs[k] = "err"
        /\ pc = "call" => \A k \in 1..tc.invoked : cfg.outs[k] = "err"
        /\ pc = "returned" =>
              cfg.outs[tc.invoked] = "ok" /\ tc.result = tc.invoked /\ tc.raised = 0
        /\ pc = "raised" =>
              /\ tc.raised = tc.invoked /\ tc.result = 0
              /\ \/ cfg.outs[tc.invoked] = "other"
                 \/ cfg.outs[tc.invoked] = "err" /\ tc.invoked = cfg.count

\* three invocations raised an err_type exception and the third was raised again
C40_Witness ==
    /\ pc = "raised" /\ cfg.count = 3 /\ tc.invoked = 3 /\ tc.raised = 3
    /\ tc.slept = 2 /\ \A k \in 1..3 : cfg.outs[k] = "err"
====
